---- MODULE Spec2Model ----
(***************************************************************************)
(* Round lifecycle of the "Who's That Pokemon?" game component             *)
(* (PokemonGame: prefetchPokemonForGame, the clock effect, handleGuess,    *)
(* finishRound / loadNextRound, the mode switch, the summary), and the id  *)
(* service it fetches from.                                                *)
(*                                                                         *)
(* React state is the record gameState plus modeSwitchModal and            *)
(* showSummary.  Every action is one handler or callback run to completion *)
(* together with the render and the effects it causes.  A setTimeout       *)
(* callback is a record in the sequence `timers` (in scheduling order)     *)
(* that holds the values its closure captured when it was scheduled.  A    *)
(* prefetch that was started and has not resolved is a record in the bag   *)
(* `prefetches`.                                                           *)
(*                                                                         *)
(* Three specifications share the handlers:                                *)
(*   Spec          the whole component, driven by a bounded player         *)
(*   SpecEval      handleGuess applied to every state of a round in play   *)
(*   SpecPrefetch  the retry loop of prefetchPokemonForGame, step by step  *)
(***************************************************************************)
EXTENDS Integers, Sequences, FiniteSets, Bags, TLC

\* ---- program constants -------------------------------------------------
GAME_DURATION == 30
NORMAL_MODE_GUESSES == 3
EASY_MODE_GUESSES == 2
ROUNDS_PER_GAME == 5
REVEAL_DURATION == 1500
WRONG_GUESS_DURATION == 500
TICK_PERIOD == 1000
QUICK_WINDOW == 10
QUICK_BONUS == 15
CHOICE_COUNT == 3
MAX_RETRIES == 3
MAX_ATTEMPTS == 25
MAX_POKEMON_ID == 1025
CLASSIC_MAX_POKEMON_ID == 151
\* 24 * 60 * 60 * 1000: 24 hours in milliseconds
CACHE_EXPIRATION == 86400000
EVICT_COUNT == 5

\* ---- bounds of the model -----------------------------------------------
\* player inputs that change the state (accepted guesses, button presses)
\* in one behaviour
MaxInputs == 2
\* clock ticks that may be delivered while a prefetch is in flight
MaxPrefetchLag == 1
\* times the clock of pokemonService moves in one behaviour
MaxAdvances == 3

\* the clock values at which the player acts while the clock runs: before
\* the first tick (with the quick bonus) and after the quick window
ActTimes == {GAME_DURATION, GAME_DURATION - QUICK_WINDOW}
\* the rounds in which the player acts: the first and the last of a game
\* (the handlers treat every round but the last alike)
ActRounds == {0, ROUNDS_PER_GAME - 1}
\* the mode and difficulty of the game a specification starts with
StoredConfigs == {<<"modern", "normal">>, <<"classic", "easy">>}

Modes == {"classic", "modern"}
Difficulties == {"easy", "normal"}

\* A Pokemon is its id (> 0); its name is a function of the id.  0 is null.
NoPokemon == 0
NoHint == 0

VARIABLES
    gameState,       \* useState<GameState>
    modeSwitchModal, \* useState<ModeSwitchModal>
    showSummary,     \* useState(false)
    timers,          \* pending setTimeout callbacks, in scheduling order
    prefetches,      \* bag of prefetchPokemonForGame calls in flight
    nextGen,         \* number of prefetch calls started so far
    loader,          \* the locals of one prefetchPokemonForGame call (SpecPrefetch),
                     \* with the history field `failures`
    inputs,          \* history: player inputs that changed the state
    last,            \* history: the handler or callback that ran last
    revealed,        \* history: round indexes revealed since the last startGame
    storage,         \* localStorage: the items of the two keys of the game
    cache,           \* localStorage: the pokemon_<id> entries of pokemonService
    service          \* pokemonService: Date.now() and the fetchPokemon call

vars == <<gameState, modeSwitchModal, showSummary, timers, prefetches, nextGen,
          loader, inputs, last, revealed, storage, cache, service>>

getInitialGuesses(difficulty) ==
    IF difficulty = "easy" THEN EASY_MODE_GUESSES ELSE NORMAL_MODE_GUESSES

\* ---- the data one resolved prefetch delivers (Spec) ----------------------
\* Ids are only compared for equality, so the k-th entity of round r of the
\* g-th prefetch is numbered canonically.
EntityId(g, r, k) == ((g - 1) * ROUNDS_PER_GAME + r) * CHOICE_COUNT + k + 1

PrefetchedRound(g, r, difficulty) ==
    IF difficulty = "easy"
    THEN [pokemon |-> EntityId(g, r, r % CHOICE_COUNT),
          choices |-> [k \in 1..CHOICE_COUNT |-> EntityId(g, r, k - 1)]]
    ELSE [pokemon |-> EntityId(g, r, 0), choices |-> <<>>]

PrefetchedData(g, difficulty) ==
    [i \in 1..ROUNDS_PER_GAME |-> PrefetchedRound(g, i - 1, difficulty)]

\* ---- timers --------------------------------------------------------------
\* The clock interval is re-armed on every change of timeLeft, so at most
\* ceil(delay / 1000) ticks are delivered while a timeout of `delay` ms is
\* pending.
TicksWithin(delay) == (delay + TICK_PERIOD - 1) \div TICK_PERIOD

Timer(kind, idx, pf, hint, disabled, guesses, delay) ==
    [kind |-> kind, idx |-> idx, pf |-> pf, hint |-> hint,
     disabled |-> disabled, guesses |-> guesses, delay |-> delay,
     ticks |-> TicksWithin(delay)]

\* A timeout fires after every timeout that was scheduled before it with a
\* delay that is not longer.
CanFire(seq, i) == \A j \in 1..(i - 1) : seq[j].delay > seq[i].delay

Without(seq, i) == SubSeq(seq, 1, i - 1) \o SubSeq(seq, i + 1, Len(seq))

Older(t) == [t EXCEPT !.ticks = t.ticks - 1]

\* One tick passes for every pending timeout.
AgedTimers(seq) == [i \in 1..Len(seq) |-> Older(seq[i])]

\* One tick passes for every prefetch in flight.
AgedPrefetches(bag) ==
    [u \in {Older(p) : p \in BagToSet(bag)} |->
        CopiesIn([u EXCEPT !.ticks = u.ticks + 1], bag)]

MayTick(seq, bag) ==
    /\ \A i \in 1..Len(seq) : seq[i].ticks > 0
    /\ \A p \in BagToSet(bag) : p.ticks > 0

\* ---- construction --------------------------------------------------------
InitialGameState(mode, difficulty) ==
    [pokemon |-> NoPokemon,
     isLoading |-> TRUE,
     isRevealed |-> FALSE,
     timeLeft |-> GAME_DURATION,
     score |-> 0,
     highScore |-> 0,
     guessesLeft |-> getInitialGuesses(difficulty),
     hint |-> NoHint,
     mode |-> mode,
     difficulty |-> difficulty,
     choices |-> <<>>,
     correctGuesses |-> <<>>,
     prefetchedPokemon |-> <<>>,
     currentRoundIndex |-> 0,
     disabledChoices |-> {},
     wasCorrect |-> FALSE,
     isQuickGuess |-> FALSE,
     isTransitioning |-> FALSE,
     timeExpired |-> FALSE]

ClosedModal ==
    [isOpen |-> FALSE, targetMode |-> "none", targetDifficulty |-> "none"]

Prefetch(mode, difficulty, gen) ==
    [mode |-> mode, difficulty |-> difficulty, gen |-> gen,
     ticks |-> MaxPrefetchLag]

IdleLoader ==
    [pc |-> "idle", mode |-> "none", difficulty |-> "none",
     prefetchedData |-> <<>>, retryCount |-> 0, usedIds |-> {},
     ids |-> <<>>, attempts |-> 0, failures |-> 0, visuals |-> {}]

\* ---- pokemonService: the cache and the clock, at rest --------------------
\* No pokemon_<id> key is in localStorage.
EmptyCache == [id \in {} |-> 0]

NoResult == [kind |-> "none", id |-> 0, fetchedAt |-> 0]

\* No fetchPokemon call is running; Date.now() is 0.
IdleService ==
    [pc |-> "idle", id |-> 0, result |-> NoResult, requested |-> FALSE,
     now |-> 0, advances |-> 0]

\* ---- localStorage --------------------------------------------------------
\* getItem returns null for a key that was never written.
NoItem == "null"

\* What localStorage holds when the component is mounted: both items as
\* saveGameMode wrote them, nothing at all, or an item that is not a mode
\* next to a difficulty that is one.
StoredItems ==
    {[mode |-> "classic", difficulty |-> "easy"],
     [mode |-> NoItem, difficulty |-> NoItem],
     [mode |-> "retro", difficulty |-> "easy"]}

\* The variant that takes any stored item for a mode.
getStoredMode_Unvalidated(stored) ==
    IF stored = NoItem THEN "modern" ELSE stored

getStoredMode(stored) ==
    IF stored = "classic" \/ stored = "modern" THEN stored ELSE "modern"

getStoredDifficulty(stored) ==
    IF stored = "easy" \/ stored = "normal" THEN stored ELSE "normal"

\* The items saveGameMode leaves for a config.
ItemsOf(c) == [mode |-> c[1], difficulty |-> c[2]]

\* The component is mounted with the stored mode and difficulty, and the
\* initial game setup effect has started the first prefetch.
Init ==
    \E items \in StoredItems :
    \E c \in {<<getStoredMode(items.mode), getStoredDifficulty(items.difficulty)>>} :
        /\ storage = items
        /\ cache = EmptyCache
        /\ service = IdleService
        /\ gameState = InitialGameState(c[1], c[2])
        /\ modeSwitchModal = ClosedModal
        /\ showSummary = FALSE
        /\ timers = <<>>
        /\ prefetches = SetToBag({Prefetch(c[1], c[2], 1)})
        /\ nextGen = 1
        /\ loader = IdleLoader
        /\ inputs = 0
        /\ last = "mount"
        /\ revealed = {}

\* ---- rendering -----------------------------------------------------------
\* The component returns the "Loading..." screen instead of the game.
LoadingScreen ==
    \/ gameState.isLoading
    \/ gameState.pokemon = NoPokemon
    \/ (gameState.difficulty = "easy" /\ Len(gameState.choices) = 0)

\* A modal overlay covers the game controls.
Overlay == showSummary \/ modeSwitchModal.isOpen

\* The end-of-game summary is on screen.
GameComplete == showSummary /\ ~LoadingScreen

\* The same, not stopped by the reveal.
ClockRunning_IgnoresReveal(gs) == gs.timeLeft > 0 /\ ~gs.isLoading

ClockRunning(gs) == ~gs.isRevealed /\ gs.timeLeft > 0 /\ ~gs.isLoading

\* The player acts and the state changes: in one of the rounds ActRounds
\* and, while the clock runs, at one of the clock values ActTimes.
PlayerActs ==
    /\ inputs < MaxInputs
    /\ gameState.currentRoundIndex \in ActRounds
    /\ ClockRunning(gameState) => gameState.timeLeft \in ActTimes
    /\ inputs' = inputs + 1

\* The rounds revealed since the last startGame, after a step to gs.
Revealing(gs) ==
    IF gs.isRevealed /\ gs.pokemon # NoPokemon
    THEN revealed \cup {gs.currentRoundIndex} ELSE revealed

\* ---- prefetchPokemonForGame: start, success, failure -------------------
StartPrefetch(gs) == [gs EXCEPT !.isLoading = TRUE]

InstallFirstRound(gs, prefetchedData, difficulty) ==
    [gs EXCEPT !.isLoading = FALSE,
               !.pokemon = prefetchedData[1].pokemon,
               !.choices = prefetchedData[1].choices,
               !.prefetchedPokemon = prefetchedData,
               !.currentRoundIndex = 0,
               !.timeLeft = GAME_DURATION,
               !.guessesLeft = getInitialGuesses(difficulty),
               !.isRevealed = FALSE,
               !.hint = NoHint,
               !.disabledChoices = {},
               !.isQuickGuess = FALSE]

PrefetchFailed(gs) == [gs EXCEPT !.isLoading = FALSE]

\* A prefetch in flight resolves with its rounds: the first one is installed.
PrefetchResolves ==
    \E p \in BagToSet(prefetches) :
        /\ gameState' = InstallFirstRound(gameState,
                            PrefetchedData(p.gen, p.difficulty), p.difficulty)
        /\ prefetches' = prefetches (-) SetToBag({p})
        /\ last' = "resolve"
        /\ revealed' = Revealing(gameState')
        /\ UNCHANGED <<modeSwitchModal, showSummary, timers, nextGen, loader, storage, cache, service, inputs>>

\* A prefetch in flight gives up: the catch block only clears isLoading.
PrefetchRejects ==
    \E p \in BagToSet(prefetches) :
        /\ gameState' = PrefetchFailed(gameState)
        /\ prefetches' = prefetches (-) SetToBag({p})
        /\ last' = "reject"
        /\ revealed' = Revealing(gameState')
        /\ UNCHANGED <<modeSwitchModal, showSummary, timers, nextGen, loader, storage, cache, service, inputs>>

\* ---- finishRound / loadNextRound ---------------------------------------
\* finishRound as created by the render whose state had round index idx and
\* prefetched rounds pf: the timeout it schedules.
FinishRoundTimer(idx, pf) ==
    IF idx = ROUNDS_PER_GAME - 1
    THEN Timer("summary", idx, pf, NoHint, {}, 0, REVEAL_DURATION)
    ELSE Timer("load", idx, pf, NoHint, {}, 0, REVEAL_DURATION)

FinishRoundState(gs) == [gs EXCEPT !.isTransitioning = TRUE]

\* The variant that opens the summary one round early.
LoadOpensSummary_Early(idx, pf) ==
    \/ idx + 2 >= ROUNDS_PER_GAME
    \/ idx + 2 > Len(pf)

\* loadNextRound as created by the render whose state had round index idx
\* and prefetched rounds pf: TRUE when it opens the summary instead of
\* loading a round (pf is a 1-based sequence, so pf[idx + 2] is
\* prefetchedPokemon[nextIndex]).
LoadOpensSummary(idx, pf) ==
    \/ idx + 1 >= ROUNDS_PER_GAME
    \/ idx + 2 > Len(pf)

\* The same, leaving the attempts of the round before.
LoadNextRoundState_KeepsAttempts(gs, idx, pf) ==
    [gs EXCEPT !.pokemon = pf[idx + 2].pokemon,
               !.choices = pf[idx + 2].choices,
               !.currentRoundIndex = idx + 1,
               !.isLoading = FALSE,
               !.isRevealed = FALSE,
               !.timeLeft = GAME_DURATION,
               !.hint = NoHint,
               !.disabledChoices = {},
               !.isQuickGuess = FALSE,
               !.isTransitioning = FALSE,
               !.timeExpired = FALSE]

LoadNextRoundState(gs, idx, pf) ==
    [gs EXCEPT !.pokemon = pf[idx + 2].pokemon,
               !.choices = pf[idx + 2].choices,
               !.currentRoundIndex = idx + 1,
               !.isLoading = FALSE,
               !.isRevealed = FALSE,
               !.timeLeft = GAME_DURATION,
               !.guessesLeft = getInitialGuesses(gs.difficulty),
               !.hint = NoHint,
               !.disabledChoices = {},
               !.isQuickGuess = FALSE,
               !.isTransitioning = FALSE,
               !.timeExpired = FALSE]

\* ---- the clock effect and the round finish effect ----------------------
\* The same without the timed-out tag.
TickState_Untagged(gs) ==
    IF gs.timeLeft - 1 <= 0
    THEN [gs EXCEPT !.timeLeft = 0, !.isRevealed = TRUE, !.wasCorrect = FALSE]
    ELSE [gs EXCEPT !.timeLeft = gs.timeLeft - 1]

TickState(gs) ==
    IF gs.timeLeft - 1 <= 0
    THEN [gs EXCEPT !.timeLeft = 0, !.isRevealed = TRUE,
                    !.timeExpired = TRUE, !.wasCorrect = FALSE]
    ELSE [gs EXCEPT !.timeLeft = gs.timeLeft - 1]

\* The round finish effect runs finishRound when the render has timeLeft 0
\* and isRevealed.
RoundFinishEffect(gs) == gs.timeLeft = 0 /\ gs.isRevealed

Tick ==
    /\ ClockRunning(gameState)
    /\ MayTick(timers, prefetches)
    /\ LET ticked == TickState(gameState)
       IN  IF RoundFinishEffect(ticked)
           THEN /\ gameState' = FinishRoundState(ticked)
                /\ timers' = Append(AgedTimers(timers),
                                FinishRoundTimer(ticked.currentRoundIndex,
                                                 ticked.prefetchedPokemon))
                /\ last' = "timeout"
           ELSE /\ gameState' = ticked
                /\ timers' = AgedTimers(timers)
                /\ last' = "tick"
    /\ prefetches' = AgedPrefetches(prefetches)
    /\ revealed' = Revealing(gameState')
    /\ UNCHANGED <<modeSwitchModal, showSummary, nextGen, loader, storage, cache, service, inputs>>

\* ---- handleGuess ---------------------------------------------------------
Name(pokemon) == pokemon

\* A text is a number; the same text in another letter case is the number
\* shifted beyond every id, and toLowerCase undoes the shift.
OtherCase(text) == text + 2 * MAX_POKEMON_ID

\* The same, leaving the letter case alone.
toLowerCase_Identity(text) == text

toLowerCase(text) ==
    IF text > 2 * MAX_POKEMON_ID THEN text - 2 * MAX_POKEMON_ID ELSE text

\* The hint text is a function of the answer's name.
getHint(name) == name

\* The same with the bound of the quick window included.
IsQuickGuess_Inclusive(timeLeft) == timeLeft >= GAME_DURATION - QUICK_WINDOW

IsQuickGuess(timeLeft) == timeLeft > GAME_DURATION - QUICK_WINDOW

\* The same, with the attempts left counted against the player.
ScoreDelta_AttemptsCost(timeLeft, guessesLeft) ==
    ((timeLeft + (NORMAL_MODE_GUESSES - guessesLeft) * 5 + 1) \div 2)
        + (IF IsQuickGuess(timeLeft) THEN QUICK_BONUS ELSE 0)

\* Math.ceil((timeLeft + guessesLeft * 5) / 2) + timeBonus
ScoreDelta(timeLeft, guessesLeft) ==
    ((timeLeft + guessesLeft * 5 + 1) \div 2)
        + (IF IsQuickGuess(timeLeft) THEN QUICK_BONUS ELSE 0)

\* The same, never raising the second argument.
Max_KeepsOld(a, b) == b

Max(a, b) == IF a >= b THEN a ELSE b

\* The early returns without the test for a repeated guess.
GuessRejected_RepeatsAllowed(gs, guess) ==
    \/ gs.pokemon = NoPokemon
    \/ gs.isLoading
    \/ gs.isRevealed
    \/ gs.guessesLeft <= 0

\* The early returns without the test for a revealed round.
GuessRejected_AfterReveal(gs, guess) ==
    \/ gs.pokemon = NoPokemon
    \/ gs.isLoading
    \/ gs.guessesLeft <= 0
    \/ guess \in gs.disabledChoices

\* The early returns of handleGuess.
GuessRejected(gs, guess) ==
    \/ gs.pokemon = NoPokemon
    \/ gs.isLoading
    \/ gs.isRevealed
    \/ gs.guessesLeft <= 0
    \/ guess \in gs.disabledChoices

IsCorrect(gs, guess) == toLowerCase(guess) = toLowerCase(Name(gs.pokemon))

AllDisabled(gs) == {Name(gs.choices[i]) : i \in 1..Len(gs.choices)}

\* The choice buttons of easy mode, one per entry of gameState.choices.
ChoiceButtons(gs) == [i \in 1..Len(gs.choices) |-> Name(gs.choices[i])]

CorrectGuessState(gs) ==
    LET newScore == gs.score + ScoreDelta(gs.timeLeft, gs.guessesLeft)
    IN  [gs EXCEPT !.isRevealed = TRUE,
                   !.score = newScore,
                   !.highScore = Max(newScore, gs.highScore),
                   !.correctGuesses = Append(gs.correctGuesses, gs.pokemon),
                   !.wasCorrect = TRUE,
                   !.guessesLeft = 0,
                   !.isQuickGuess = IsQuickGuess(gs.timeLeft),
                   !.disabledChoices = AllDisabled(gs),
                   !.hint = NoHint]

NewGuessesLeft(gs) == gs.guessesLeft - 1

NewHint(gs) ==
    IF NewGuessesLeft(gs) = 1 THEN getHint(Name(gs.pokemon)) ELSE gs.hint

\* The same, ending the round one guess late.
RoundEnds_OneLate(gs) == gs.guessesLeft - 1 < 0

RoundEnds(gs) == NewGuessesLeft(gs) <= 0

OutOfGuessesState(gs) ==
    [gs EXCEPT !.guessesLeft = 0,
               !.isRevealed = TRUE,
               !.disabledChoices = AllDisabled(gs),
               !.wasCorrect = FALSE,
               !.hint = NoHint,
               !.timeExpired = FALSE]

WrongGuessState(gs, guess) ==
    [gs EXCEPT !.guessesLeft = NewGuessesLeft(gs),
               !.hint = NewHint(gs),
               !.disabledChoices = gs.disabledChoices \cup {guess}]

\* A correct guess that schedules nothing.
CorrectGuessTimers_None(gs) == <<>>

\* The timeouts handleGuess schedules; their closures capture the state of
\* the render that created handleGuess.
CorrectGuessTimers(gs) ==
    <<Timer("finish", gs.currentRoundIndex, gs.prefetchedPokemon,
            NoHint, {}, 0, REVEAL_DURATION)>>

OutOfGuessesTimers(gs) == <<>>

WrongGuessTimers(gs, guess) ==
    <<Timer("cleanup", 0, <<>>, NewHint(gs),
            gs.disabledChoices \cup {guess}, NewGuessesLeft(gs),
            WRONG_GUESS_DURATION)>>

handleGuess(guess) ==
    /\ IF GuessRejected(gameState, guess)
       THEN /\ last' = "guess rejected"
            /\ UNCHANGED <<gameState, timers>>
       ELSE IF IsCorrect(gameState, guess)
       THEN /\ gameState' = CorrectGuessState(gameState)
            /\ timers' = timers \o CorrectGuessTimers(gameState)
            /\ last' = "correct"
       ELSE IF RoundEnds(gameState)
       THEN /\ gameState' = OutOfGuessesState(gameState)
            /\ timers' = timers \o OutOfGuessesTimers(gameState)
            /\ last' = "out of guesses"
       ELSE /\ gameState' = WrongGuessState(gameState, guess)
            /\ timers' = timers \o WrongGuessTimers(gameState, guess)
            /\ last' = "wrong"
    /\ revealed' = Revealing(gameState')
    /\ UNCHANGED <<modeSwitchModal, showSummary, prefetches, nextGen, loader, storage, cache, service>>

\* Free text that is the name of no Pokemon in play is a negative number.
\* Texts are only compared for equality, so a text not yet tried in the round
\* is numbered canonically.
FreshWrong(gs) ==
    -(CHOOSE k \in 1..(Cardinality(gs.disabledChoices) + 1) :
          /\ -k \notin gs.disabledChoices
          /\ \A j \in 1..(k - 1) : -j \in gs.disabledChoices)

\* What the player can submit: a choice button in easy mode, any text in
\* normal mode.
GuessInputs(gs) ==
    IF gs.difficulty = "easy"
    THEN {ChoiceButtons(gs)[i] : i \in 1..Len(gs.choices)}
    ELSE {Name(gs.pokemon), OtherCase(Name(gs.pokemon)), FreshWrong(gs)}
             \cup gs.disabledChoices

\* The player submits a guess.
HandleGuess ==
    \E guess \in GuessInputs(gameState) :
        /\ handleGuess(guess)
        /\ IF GuessRejected(gameState, guess)
           THEN UNCHANGED inputs
           ELSE ~Overlay /\ PlayerActs

\* ---- timeouts ------------------------------------------------------------
\* The cleanup timeout of a wrong guess writes back the values its closure
\* captured.
CleanupState(gs, t) ==
    [gs EXCEPT !.hint = t.hint,
               !.disabledChoices = t.disabled,
               !.guessesLeft = t.guesses]

TimerFires ==
    \E i \in 1..Len(timers) :
        LET t == timers[i]
            rest == Without(timers, i)
        IN
        /\ CanFire(timers, i)
        /\ CASE t.kind = "finish" ->
                  /\ gameState' = FinishRoundState(gameState)
                  /\ timers' = Append(rest, FinishRoundTimer(t.idx, t.pf))
                  /\ UNCHANGED showSummary
             [] t.kind = "summary" ->
                  /\ showSummary' = TRUE
                  /\ timers' = rest
                  /\ UNCHANGED gameState
             [] t.kind = "load" ->
                  /\ timers' = rest
                  /\ IF LoadOpensSummary(t.idx, t.pf)
                     THEN showSummary' = TRUE /\ UNCHANGED gameState
                     ELSE /\ gameState' = LoadNextRoundState(gameState, t.idx, t.pf)
                          /\ UNCHANGED showSummary
             [] t.kind = "cleanup" ->
                  /\ gameState' = CleanupState(gameState, t)
                  /\ timers' = rest
                  /\ UNCHANGED showSummary
        /\ last' = t.kind
        /\ revealed' = Revealing(gameState')
        /\ UNCHANGED <<modeSwitchModal, prefetches, nextGen, loader, storage, cache, service, inputs>>

\* ---- Next Pokemon / View Summary buttons -------------------------------
NextPokemonButton ==
    /\ ~LoadingScreen /\ ~Overlay
    /\ gameState.isRevealed
    /\ gameState.currentRoundIndex < ROUNDS_PER_GAME - 1
    /\ ~gameState.isTransitioning
    /\ PlayerActs
    /\ gameState' = FinishRoundState(gameState)
    /\ timers' = Append(timers, FinishRoundTimer(gameState.currentRoundIndex,
                                                 gameState.prefetchedPokemon))
    /\ last' = "next"
    /\ revealed' = Revealing(gameState')
    /\ UNCHANGED <<modeSwitchModal, showSummary, prefetches, nextGen, loader, storage, cache, service>>

ViewSummaryButton ==
    /\ ~LoadingScreen /\ ~Overlay
    /\ gameState.isRevealed
    /\ ~(gameState.currentRoundIndex < ROUNDS_PER_GAME - 1)
    /\ PlayerActs
    /\ showSummary' = TRUE
    /\ last' = "view summary"
    /\ UNCHANGED <<gameState, modeSwitchModal, timers, prefetches, nextGen,
                   loader, storage, cache, service, revealed>>

\* ---- mode switch ---------------------------------------------------------
\* The same, asking for confirmation only after the quick-guess window.
isGameInProgress_LateOnly(gs) ==
    ~gs.isRevealed /\ gs.timeLeft < GAME_DURATION - QUICK_WINDOW /\ gs.timeLeft > 0

isGameInProgress(gs) ==
    ~gs.isRevealed /\ gs.timeLeft < GAME_DURATION /\ gs.timeLeft > 0

\* The same, carrying nothing over.
resetGameState_ForgetsHigh(gs, newMode, newDifficulty) ==
    InitialGameState(newMode, newDifficulty)

\* The same, carrying the score over as well.
resetGameState_KeepsScore(gs, newMode, newDifficulty) ==
    [InitialGameState(newMode, newDifficulty) EXCEPT !.highScore = gs.highScore,
                                                     !.score = gs.score]

resetGameState(gs, newMode, newDifficulty) ==
    [InitialGameState(newMode, newDifficulty) EXCEPT !.highScore = gs.highScore]

\* resetGameState, then prefetchPokemonForGame; when the mode or the
\* difficulty changed, the initial game setup effect runs again and starts a
\* second prefetch for the same config.
StartsOnSwitch(gs, newMode, newDifficulty) ==
    IF gs.mode # newMode \/ gs.difficulty # newDifficulty THEN 2 ELSE 1

\* A new game is started.
SwitchTo(newMode, newDifficulty) ==
    LET n == StartsOnSwitch(gameState, newMode, newDifficulty) IN
    /\ gameState' = StartPrefetch(resetGameState(gameState, newMode, newDifficulty))
    /\ prefetches' = prefetches (+)
           SetToBag({Prefetch(newMode, newDifficulty, nextGen + k) : k \in 1..n})
    /\ nextGen' = nextGen + n
    /\ revealed' = {}

\* saveGameMode: both items are written.
saveGameMode(mode, difficulty) == [mode |-> mode, difficulty |-> difficulty]

\* The four mode and difficulty buttons.
ModeButtons(gs) ==
    {<<m, gs.difficulty>> : m \in Modes} \cup {<<gs.mode, d>> : d \in Difficulties}

handleModeSwitchTo(newMode, newDifficulty) ==
    /\ ~LoadingScreen /\ ~Overlay
    /\ IF gameState.mode = newMode /\ gameState.difficulty = newDifficulty
       THEN /\ last' = "same mode"
            /\ UNCHANGED <<gameState, modeSwitchModal, prefetches, nextGen,
                           inputs, revealed, storage, cache, service>>
       ELSE /\ PlayerActs
            /\ IF isGameInProgress(gameState)
               THEN /\ modeSwitchModal' = [isOpen |-> TRUE, targetMode |-> newMode,
                                           targetDifficulty |-> newDifficulty]
                    /\ last' = "switch requested"
                    /\ UNCHANGED <<gameState, prefetches, nextGen, revealed,
                                   storage, cache, service>>
               ELSE /\ storage' = saveGameMode(newMode, newDifficulty)
                    /\ SwitchTo(newMode, newDifficulty)
                    /\ last' = "switched"
                    /\ UNCHANGED modeSwitchModal
    /\ UNCHANGED <<showSummary, timers, loader, cache, service>>

handleModeSwitch ==
    \E target \in ModeButtons(gameState) : handleModeSwitchTo(target[1], target[2])

\* The Modal component: after its confirm button has run onConfirm, the
\* pending request is discarded.
ModalAfterConfirm == ClosedModal

\* The modal's confirm button: onConfirm (confirmModeSwitch).
confirmModeSwitch ==
    /\ ~LoadingScreen
    /\ modeSwitchModal.isOpen
    /\ PlayerActs
    /\ IF modeSwitchModal.targetMode # "none" /\ modeSwitchModal.targetDifficulty # "none"
       THEN /\ storage' = saveGameMode(modeSwitchModal.targetMode,
                                       modeSwitchModal.targetDifficulty)
            /\ SwitchTo(modeSwitchModal.targetMode,
                        modeSwitchModal.targetDifficulty)
       ELSE UNCHANGED <<gameState, prefetches, nextGen, revealed, storage, cache, service>>
    /\ modeSwitchModal' = ModalAfterConfirm
    /\ last' = "confirmed"
    /\ UNCHANGED <<showSummary, timers, loader, cache, service>>

\* The same, leaving the request pending.
cancelModeSwitch_KeepsRequest ==
    /\ ~LoadingScreen
    /\ modeSwitchModal.isOpen
    /\ PlayerActs
    /\ last' = "cancelled"
    /\ UNCHANGED <<gameState, modeSwitchModal, showSummary, timers, prefetches,
                   nextGen, loader, storage, cache, service, revealed>>

\* The modal's onClose.
cancelModeSwitch ==
    /\ ~LoadingScreen
    /\ modeSwitchModal.isOpen
    /\ PlayerActs
    /\ modeSwitchModal' = ClosedModal
    /\ last' = "cancelled"
    /\ UNCHANGED <<gameState, showSummary, timers, prefetches, nextGen,
                   loader, storage, cache, service, revealed>>

\* ---- the summary ---------------------------------------------------------
\* The same, only closing the summary.
dismissSummary_OnlyCloses ==
    /\ GameComplete
    /\ PlayerActs
    /\ showSummary' = FALSE
    /\ last' = "dismissed"
    /\ UNCHANGED <<gameState, modeSwitchModal, timers, prefetches, nextGen,
                   loader, storage, cache, service, revealed>>

\* GameSummaryModal onClose.
dismissSummary ==
    /\ GameComplete
    /\ PlayerActs
    /\ showSummary' = FALSE
    /\ SwitchTo(gameState.mode, gameState.difficulty)
    /\ last' = "dismissed"
    /\ UNCHANGED <<modeSwitchModal, timers, loader, storage, cache, service>>

\* ---- specification of the component -----------------------------------
Next ==
    \/ PrefetchResolves
    \/ PrefetchRejects
    \/ Tick
    \/ HandleGuess
    \/ TimerFires
    \/ NextPokemonButton
    \/ ViewSummaryButton
    \/ handleModeSwitch
    \/ confirmModeSwitch
    \/ cancelModeSwitch
    \/ dismissSummary

Spec == Init /\ [][Next]_vars

\* Timeouts that were scheduled fire; nothing cancels them.
FairSpec == Spec /\ WF_vars(TimerFires)

\* ---- properties of the component ----------------------------------------
AllRounds == 0..(ROUNDS_PER_GAME - 1)

\* A timeout that advances the game from round idx is pending.
AdvancePending(idx) ==
    \E i \in 1..Len(timers) :
        /\ timers[i].kind \in {"finish", "load", "summary"}
        /\ timers[i].idx = idx

\* C1: the summary is on screen only when all five rounds of the game
\* started by the last startGame have been revealed.
C1_SummaryOnlyAfterAllRounds ==
    GameComplete => revealed = AllRounds

\* C3: whenever a round is presented, the game holds exactly five prefetched
\* rounds.
C3_OnlyFullGames ==
    ~LoadingScreen => Len(gameState.prefetchedPokemon) = ROUNDS_PER_GAME

C5_GuessOutsidePlayNoOp ==
    [][\A guess \in GuessInputs(gameState) :
          (/\ handleGuess(guess)
           /\ \/ gameState.isLoading
              \/ gameState.isRevealed
              \/ gameState.guessesLeft <= 0) =>
              UNCHANGED <<gameState, modeSwitchModal, showSummary, timers,
                          prefetches>>]_vars

\* C5 witness: a guess was rejected after the reveal of a round that still
\* had attempts (the clock ran out).
C5_Witness ==
    /\ last = "guess rejected"
    /\ gameState.isRevealed
    /\ gameState.pokemon # NoPokemon
    /\ gameState.guessesLeft > 0

\* C8: the tick that takes the clock from 1 to 0 reveals the round as timed
\* out, leaves the clock at 0, and changes neither the score nor the history,
\* whatever the attempts left.
C8_ClockExpiry ==
    [][(/\ ClockRunning(gameState)
        /\ gameState.timeLeft = 1
        /\ last' \in {"tick", "timeout"}) =>
           /\ gameState'.isRevealed
           /\ gameState'.timeExpired /\ ~gameState'.wasCorrect
           /\ gameState'.timeLeft = 0
           /\ gameState'.score = gameState.score
           /\ gameState'.highScore = gameState.highScore
           /\ gameState'.correctGuesses = gameState.correctGuesses
           /\ gameState'.guessesLeft = gameState.guessesLeft]_vars

\* C8 witness: the clock ran out in a round in which the player had already
\* guessed wrong.
C8_Witness ==
    /\ last = "timeout"
    /\ gameState.pokemon # NoPokemon
    /\ gameState.timeLeft = 0 /\ gameState.isRevealed
    /\ gameState.guessesLeft < getInitialGuesses(gameState.difficulty)

\* C9: right after the wrong guess that uses up the attempts the round is
\* revealed as wrong-exhausted and a timeout that advances the game is
\* pending.
C9_ExhaustedAdvanceScheduled ==
    last = "out of guesses" =>
        /\ gameState.isRevealed
        /\ ~gameState.wasCorrect /\ ~gameState.timeExpired
        /\ AdvancePending(gameState.currentRoundIndex)

\* C10: a round revealed by a correct guess or by the clock is left without
\* player input: the next round is loaded or the summary opens.
C10_AdvanceAfterReveal ==
    (gameState.isRevealed /\ (gameState.wasCorrect \/ gameState.timeExpired))
        ~> (~gameState.isRevealed \/ showSummary)

\* C10 witness: a correct guess has revealed the round and its advance is
\* pending.
C10_Witness ==
    /\ last = "correct"
    /\ gameState.isRevealed /\ gameState.wasCorrect
    /\ AdvancePending(gameState.currentRoundIndex)

\* ---- SpecEval: handleGuess on every state of a round in play -----------
\* The guesses that are neither the answer nor already tried.
WrongInputs(gs) ==
    {guess \in GuessInputs(gs) :
        ~IsCorrect(gs, guess) /\ guess \notin gs.disabledChoices}

\* The state of a round after k wrong guesses, their cleanup timeouts fired.
RECURSIVE AfterWrongGuesses(_, _)
AfterWrongGuesses(k, gs) ==
    IF k = 0 THEN gs
    ELSE AfterWrongGuesses(k - 1,
             WrongGuessState(gs, CHOOSE w \in WrongInputs(gs) : TRUE))

\* The first round of a game is in play: the clock shows any value from 1
\* to GAME_DURATION and the player has made any number of wrong guesses that
\* leaves an attempt.
InitEval ==
    \E c \in StoredConfigs, t \in 1..GAME_DURATION :
    \E k \in 0..(getInitialGuesses(c[2]) - 1) :
        /\ gameState =
              [AfterWrongGuesses(k,
                  InstallFirstRound(InitialGameState(c[1], c[2]),
                                    PrefetchedData(1, c[2]), c[2]))
               EXCEPT !.timeLeft = t]
        /\ modeSwitchModal = ClosedModal
        /\ showSummary = FALSE
        /\ timers = <<>>
        /\ prefetches = EmptyBag
        /\ nextGen = 1
        /\ loader = IdleLoader
        /\ inputs = 0
        /\ last = "round in play"
        /\ storage = ItemsOf(c)
        /\ cache = EmptyCache
        /\ service = IdleService
        /\ revealed = {}

\* handleGuess is called with any input.
EvalGuess ==
    \E guess \in GuessInputs(gameState) :
        handleGuess(guess) /\ UNCHANGED inputs

NextEval == EvalGuess

SpecEval == InitEval /\ [][NextEval]_vars

\* The least integer that is at least x / 2.
CeilHalf(x) == CHOOSE n \in 0..x : 2 * n >= x /\ 2 * (n - 1) < x

\* C6: a correct guess with clock t and g attempts left adds
\* ceil((t + 5 g) / 2), plus 15 when t > GAME_DURATION - 10; 25 and 3 give
\* 35, and a clock of 20 gets no bonus.
C6_ScoreDelta ==
    [][last' = "correct" =>
          LET t == gameState.timeLeft
              g == gameState.guessesLeft
              delta == gameState'.score - gameState.score
          IN  /\ delta = CeilHalf(t + g * 5)
                           + (IF t > GAME_DURATION - 10 THEN 15 ELSE 0)
              /\ (t = 25 /\ g = 3) => delta = 35
              /\ t = 20 => delta = CeilHalf(20 + g * 5)]_vars

\* C6 witness: a correct guess at clock 25 with 3 attempts has scored 35.
C6_Witness ==
    /\ last = "correct"
    /\ gameState.timeLeft = 25
    /\ gameState.score = 35
    /\ gameState.isQuickGuess

\* C7: an accepted incorrect guess takes exactly one attempt; the round is
\* revealed iff no attempt is left; the hint is shown iff exactly one
\* attempt is left.
C7_IncorrectGuess ==
    [][last' \in {"wrong", "out of guesses"} =>
          /\ gameState'.guessesLeft = gameState.guessesLeft - 1
          /\ gameState'.isRevealed <=> gameState'.guessesLeft = 0
          /\ gameState'.hint # NoHint <=> gameState'.guessesLeft = 1]_vars

\* C7 witness: a wrong guess has left exactly one attempt and the hint is
\* shown.
C7_Witness ==
    /\ last = "wrong"
    /\ gameState.guessesLeft = 1
    /\ gameState.hint = getHint(Name(gameState.pokemon))
    /\ ~gameState.isRevealed

\* ---- SpecPrefetch: the loop of prefetchPokemonForGame -------------------
Range(seq) == {seq[i] : i \in 1..Len(seq)}

MaxOf(S) == CHOOSE m \in S : \A n \in S : n <= m

MaxId(mode) ==
    IF mode = "classic" THEN CLASSIC_MAX_POKEMON_ID ELSE MAX_POKEMON_ID

\* Math.random draws any id of the mode.  Ids are only compared with the ids
\* already taken, so the draws are represented by the smallest id not taken,
\* an id already drawn in this call, and an id used by an accepted round.
DrawSet(l) ==
    LET taken == l.usedIds \cup Range(l.ids)
        fresh == CHOOSE n \in 1..(Cardinality(taken) + 1) :
                     /\ n \notin taken
                     /\ \A j \in 1..(n - 1) : j \in taken
    IN  ({fresh}
            \cup (IF l.ids # <<>> THEN {l.ids[Len(l.ids)]} ELSE {})
            \cup (IF l.usedIds # {} THEN {MaxOf(l.usedIds)} ELSE {}))
        \cap 1..MaxId(l.mode)

\* The same test without the ids already drawn in this call.
IdAccepted_RepeatsAllowed(ids, excludeIds, newId) == newId \notin excludeIds

\* The same test without the excluded ids.
IdAccepted_ExcludedAllowed(ids, excludeIds, newId) == newId \notin Range(ids)

\* getRandomPokemonIds: the test that lets a drawn id into the result.
IdAccepted(ids, excludeIds, newId) ==
    newId \notin Range(ids) /\ newId \notin excludeIds

\* What the entity source returns for the sprites of a Pokemon: each of the
\* front and the back sprite is there or is missing.
Sprites == [front : BOOLEAN, back : BOOLEAN]

\* The same, looking at the front sprite only.
SpritesValid_FrontOnly(sprites) == sprites.front

\* pokemon.sprites.front_default && pokemon.sprites.back_default
SpritesValid(sprites) == sprites.front /\ sprites.back

\* prefetchPokemonForGame, easy mode: every Pokemon of the round is tested.
AllSpritesValid(fetched) == \A k \in DOMAIN fetched : SpritesValid(fetched[k])

\* History: the sprites that came with the Pokemon of an accepted round.
Visuals(ids, fetched) ==
    {[id |-> ids[k], front |-> fetched[k].front, back |-> fetched[k].back] :
         k \in DOMAIN ids}

\* prefetchPokemonForGame, normal mode: the test that accepts a round.
NormalRoundAccepted(usedIds, id, spritesValid) ==
    spritesValid /\ id \notin usedIds

\* History: the failed attempts (a throw or a dropped round) since the last
\* accepted round, counted up to MAX_RETRIES.
Failed(l) ==
    [l EXCEPT !.failures = IF l.failures < MAX_RETRIES
                           THEN l.failures + 1 ELSE MAX_RETRIES]

Accepted(l) == [l EXCEPT !.failures = 0]

\* The same with the answer taken out of the choices.
EasyRound_AnswerApart(ids, correctIndex) ==
    [pokemon |-> ids[correctIndex], choices |-> Without(ids, correctIndex)]

\* fetchRandomPokemonWithChoices: the answer is one of the fetched Pokemon
\* and the choices are all of them.
EasyRound(ids, correctIndex) ==
    [pokemon |-> ids[correctIndex], choices |-> ids]

\* prefetchPokemonForGame is called: isLoading is set and the loop starts.
InitPrefetch ==
    \E c \in StoredConfigs :
        /\ gameState = StartPrefetch(InitialGameState(c[1], c[2]))
        /\ modeSwitchModal = ClosedModal
        /\ showSummary = FALSE
        /\ timers = <<>>
        /\ prefetches = EmptyBag
        /\ nextGen = 1
        /\ loader = [IdleLoader EXCEPT !.pc = "loop", !.mode = c[1],
                                       !.difficulty = c[2]]
        /\ inputs = 0
        /\ last = "prefetch"
        /\ storage = ItemsOf(c)
        /\ cache = EmptyCache
        /\ service = IdleService
        /\ revealed = {}

LoopContinues(l) ==
    Len(l.prefetchedData) < ROUNDS_PER_GAME /\ l.retryCount < MAX_RETRIES

\* One more iteration: easy mode enters getRandomPokemonIds, normal mode
\* draws one id (getRandomPokemonId).
PrefetchIterates ==
    /\ loader.pc = "loop"
    /\ LoopContinues(loader)
    /\ IF loader.difficulty = "easy"
       THEN loader' = [loader EXCEPT !.pc = "ids", !.ids = <<>>, !.attempts = 0]
       ELSE \E id \in DrawSet([loader EXCEPT !.ids = <<>>]) :
                loader' = [loader EXCEPT !.pc = "fetch", !.ids = <<id>>]
    /\ last' = "iterate"
    /\ UNCHANGED <<gameState, modeSwitchModal, showSummary, timers, prefetches,
                   nextGen, inputs, revealed, storage, cache, service>>

\* The loop ended with all the rounds: the first one is installed.
PrefetchReturns ==
    /\ loader.pc = "loop"
    /\ ~LoopContinues(loader)
    /\ ~(Len(loader.prefetchedData) < ROUNDS_PER_GAME)
    /\ gameState' = InstallFirstRound(gameState, loader.prefetchedData,
                                      loader.difficulty)
    /\ loader' = [loader EXCEPT !.pc = "done"]
    /\ last' = "resolve"
    /\ UNCHANGED <<modeSwitchModal, showSummary, timers, prefetches, nextGen,
                   inputs, revealed, storage, cache, service>>

\* The loop ended short of rounds: the error is caught, isLoading is cleared.
PrefetchThrows ==
    /\ loader.pc = "loop"
    /\ ~LoopContinues(loader)
    /\ Len(loader.prefetchedData) < ROUNDS_PER_GAME
    /\ gameState' = PrefetchFailed(gameState)
    /\ loader' = [loader EXCEPT !.pc = "failed"]
    /\ last' = "reject"
    /\ UNCHANGED <<modeSwitchModal, showSummary, timers, prefetches, nextGen,
                   inputs, revealed, storage, cache, service>>

\* getRandomPokemonIds: one pass of its while loop.
DrawId ==
    /\ loader.pc = "ids"
    /\ Len(loader.ids) < CHOICE_COUNT /\ loader.attempts < MAX_ATTEMPTS
    /\ \E newId \in DrawSet(loader) :
          loader' = [loader EXCEPT
              !.ids = IF IdAccepted(loader.ids, loader.usedIds, newId)
                      THEN Append(loader.ids, newId) ELSE loader.ids,
              !.attempts = loader.attempts + 1]
    /\ last' = "draw"
    /\ UNCHANGED <<gameState, modeSwitchModal, showSummary, timers, prefetches,
                   nextGen, inputs, revealed, storage, cache, service>>

\* getRandomPokemonIds: its loop ended; it returns the ids or throws, and
\* the throw is counted as a retry by the prefetch loop.
DrawEnds ==
    /\ loader.pc = "ids"
    /\ ~(Len(loader.ids) < CHOICE_COUNT /\ loader.attempts < MAX_ATTEMPTS)
    /\ IF Len(loader.ids) < CHOICE_COUNT
       THEN /\ loader' = Failed([loader EXCEPT
                                 !.pc = "loop",
                                 !.retryCount = loader.retryCount + 1])
            /\ last' = "ids exhausted"
       ELSE /\ loader' = [loader EXCEPT !.pc = "fetch"]
            /\ last' = "ids drawn"
    /\ UNCHANGED <<gameState, modeSwitchModal, showSummary, timers, prefetches,
                   nextGen, inputs, revealed, storage, cache, service>>

\* A fetch throws: the prefetch loop counts a retry.
FetchFails ==
    /\ loader.pc = "fetch"
    /\ loader' = Failed([loader EXCEPT !.pc = "loop",
                                       !.retryCount = loader.retryCount + 1])
    /\ last' = "fetch failed"
    /\ UNCHANGED <<gameState, modeSwitchModal, showSummary, timers, prefetches,
                   nextGen, inputs, revealed, storage, cache, service>>

\* The fetches return the Pokemon of the drawn ids, each with its sprites;
\* easy mode picks the answer among them.  The round is accepted or silently
\* dropped.
FetchSucceedsWith(fetched, correctIndex) ==
    /\ loader.pc = "fetch"
    /\ IF loader.difficulty = "easy"
       THEN IF AllSpritesValid(fetched)
            THEN loader' = Accepted([loader EXCEPT
                     !.pc = "loop",
                     !.usedIds = loader.usedIds \cup Range(loader.ids),
                     !.visuals = loader.visuals \cup Visuals(loader.ids, fetched),
                     !.prefetchedData = Append(loader.prefetchedData,
                         EasyRound(loader.ids, correctIndex))])
            ELSE loader' = Failed([loader EXCEPT !.pc = "loop"])
       ELSE IF NormalRoundAccepted(loader.usedIds, loader.ids[1],
                                   SpritesValid(fetched[1]))
            THEN loader' = Accepted([loader EXCEPT
                     !.pc = "loop",
                     !.usedIds = loader.usedIds \cup {loader.ids[1]},
                     !.visuals = loader.visuals \cup Visuals(loader.ids, fetched),
                     !.prefetchedData = Append(loader.prefetchedData,
                         [pokemon |-> loader.ids[1], choices |-> <<>>])])
            ELSE loader' = Failed([loader EXCEPT !.pc = "loop"])
    /\ last' = "fetched"
    /\ UNCHANGED <<gameState, modeSwitchModal, showSummary, timers, prefetches,
                   nextGen, inputs, revealed, storage, cache, service>>

\* What a fetch of the drawn ids can return, and the answer easy mode picks.
FetchResults(l) == [1..Len(l.ids) -> Sprites]

FetchSucceeds ==
    \E fetched \in FetchResults(loader), correctIndex \in 1..Len(loader.ids) :
        FetchSucceedsWith(fetched, correctIndex)

NextPrefetch ==
    \/ PrefetchIterates
    \/ PrefetchReturns
    \/ PrefetchThrows
    \/ DrawId
    \/ DrawEnds
    \/ FetchFails
    \/ FetchSucceeds

SpecPrefetch == InitPrefetch /\ [][NextPrefetch]_vars

\* The ids of a round: its answer and its choices.
RoundIds(round) == {round.pokemon} \cup Range(round.choices)

\* C2: among the rounds one prefetch has accepted, the id sets of two
\* different rounds are disjoint and the choices of a round are pairwise
\* distinct, in easy and in normal mode.
C2_IdsUsedOnce ==
    LET data == loader.prefetchedData IN
    /\ \A i, j \in 1..Len(data) :
          i # j => RoundIds(data[i]) \cap RoundIds(data[j]) = {}
    /\ \A i \in 1..Len(data) :
          \A a, b \in 1..Len(data[i].choices) :
              a # b => data[i].choices[a] # data[i].choices[b]
    /\ loader.pc = "done" => gameState.prefetchedPokemon = data

\* C2 witness: an easy-mode prefetch has returned five rounds of three
\* choices each, after draws that hit ids already used.
C2_Witness ==
    /\ loader.pc = "done"
    /\ loader.difficulty = "easy"
    /\ Len(gameState.prefetchedPokemon) = ROUNDS_PER_GAME
    /\ \A i \in 1..ROUNDS_PER_GAME :
          Len(gameState.prefetchedPokemon[i].choices) = CHOICE_COUNT
    /\ Cardinality(loader.usedIds) = ROUNDS_PER_GAME * CHOICE_COUNT
    /\ loader.attempts > CHOICE_COUNT

\* Every step of the loop that can be taken is taken.
FairSpecPrefetch == SpecPrefetch /\ WF_vars(NextPrefetch)

\* C15: the prefetch fails after three consecutive failed attempts (a throw
\* or a dropped round) and not before: it has not failed while fewer than
\* three attempts in a row have failed, and it does not go on once three
\* have.
C15_ConsecutiveBudget ==
    /\ loader.pc = "failed" => loader.failures >= MAX_RETRIES
    /\ (loader.pc = "loop" /\ loader.failures >= MAX_RETRIES) =>
           ~LoopContinues(loader)

\* C16: the prefetch ends, with its rounds or with a failure, whatever the
\* fetches return.
C16_PrefetchTerminates ==
    <>(loader.pc \in {"done", "failed"})

\* C19: in easy mode every accepted round has exactly three choices of which
\* exactly one is the answer, and the buttons of the installed round are
\* those choices, the answer among them.
C19_ChoicesHoldAnswer ==
    LET data == loader.prefetchedData IN
    loader.difficulty = "easy" =>
        /\ \A i \in 1..Len(data) :
              /\ Len(data[i].choices) = CHOICE_COUNT
              /\ Cardinality({k \in 1..Len(data[i].choices) :
                                 data[i].choices[k] = data[i].pokemon}) = 1
        /\ loader.pc = "done" =>
              /\ ChoiceButtons(gameState) =
                     [k \in 1..CHOICE_COUNT |-> Name(data[1].choices[k])]
              /\ GuessInputs(gameState) = {Name(id) : id \in RoundIds(data[1])}
              /\ Name(gameState.pokemon) \in GuessInputs(gameState)

\* C19 witness: an easy-mode game is installed whose first answer is the
\* last of its three buttons.
C19_Witness ==
    /\ loader.pc = "done"
    /\ loader.difficulty = "easy"
    /\ ~gameState.isLoading
    /\ Len(ChoiceButtons(gameState)) = CHOICE_COUNT
    /\ ChoiceButtons(gameState)[CHOICE_COUNT] = Name(gameState.pokemon)

\* ---- properties of the component: timeouts and mode switches -----------
AdvanceKinds == {"finish", "load", "summary"}

\* The timeout t was scheduled by a render of another round or another game
\* than the current one.
Stale(t) ==
    \/ t.idx # gameState.currentRoundIndex
    \/ t.pf # gameState.prefetchedPokemon

\* C11: when every pending timeout that advances the game belongs to a round
\* or a game that has been superseded, the firing of one of them changes
\* neither the game state nor the summary.
C11_StaleAdvanceNoEffect ==
    [][(/\ last' \in AdvanceKinds
        /\ \A i \in 1..Len(timers) :
               timers[i].kind \in AdvanceKinds => Stale(timers[i])) =>
           UNCHANGED <<gameState, showSummary>>]_vars

\* The round is mid-play: not revealed, and the clock has started and has
\* not run out.
MidPlay(gs) == ~gs.isRevealed /\ 0 < gs.timeLeft /\ gs.timeLeft < GAME_DURATION

FreshGame(newMode, newDifficulty) ==
    /\ gameState'.mode = newMode
    /\ gameState'.difficulty = newDifficulty
    /\ gameState'.score = 0
    /\ gameState'.currentRoundIndex = 0
    /\ gameState'.correctGuesses = <<>>
    /\ gameState'.disabledChoices = {}
    /\ gameState'.guessesLeft =
           (IF newDifficulty = "easy" THEN EASY_MODE_GUESSES
                                      ELSE NORMAL_MODE_GUESSES)
    /\ gameState'.timeLeft = GAME_DURATION
    /\ gameState'.pokemon = NoPokemon
    /\ gameState'.prefetchedPokemon = <<>>
    /\ gameState'.hint = NoHint
    /\ ~gameState'.isRevealed /\ ~gameState'.wasCorrect
    /\ ~gameState'.timeExpired /\ ~gameState'.isTransitioning
    /\ gameState'.isLoading
    /\ gameState'.highScore = gameState.highScore
    /\ \E p \in BagToSet(prefetches') :
           /\ p.mode = newMode /\ p.difficulty = newDifficulty
           /\ p.gen > nextGen

\* C13: a mode switch that is carried out, at once or on confirmation,
\* starts a new game in the target config: score 0, round 0, empty history
\* and disabled set, the target difficulty's attempts, and the high score of
\* before.
C13_SwitchStartsFreshGame ==
    [][/\ \A target \in ModeButtons(gameState) :
              (handleModeSwitchTo(target[1], target[2]) /\ last' = "switched")
                  => FreshGame(target[1], target[2])
       /\ (/\ confirmModeSwitch
           /\ modeSwitchModal.targetMode # "none"
           /\ modeSwitchModal.targetDifficulty # "none")
              => FreshGame(modeSwitchModal.targetMode,
                           modeSwitchModal.targetDifficulty)]_vars

\* C13 witness: a switch was carried out in a game that had scored.
C13_Witness ==
    /\ last \in {"switched", "confirmed"}
    /\ gameState.highScore > 0
    /\ gameState.score = 0
    /\ gameState.isLoading

\* ---- properties of the component: a failed prefetch --------------------
\* The prefetch of the game has failed: nothing is loading, nothing is in
\* flight, and no round was installed.
LoadFailed ==
    /\ ~gameState.isLoading
    /\ gameState.pokemon = NoPokemon
    /\ gameState.prefetchedPokemon = <<>>
    /\ prefetches = EmptyBag

\* C14: after a failed prefetch nothing happens until a game is started
\* again: the clock does not tick, no round is entered, no advance runs and
\* the summary is not opened.
C14_LoadFailedInert ==
    [][(LoadFailed /\ ~gameState'.isLoading) =>
           UNCHANGED <<gameState, showSummary, timers>>]_vars

\* ---- properties of the component: the advance ---------------------------
LoadKinds == {"load", "summary"}

\* A round is on screen, every pending timeout that loads the next round or
\* opens the summary was scheduled by that round of the current game, and
\* the game holds all its rounds.
AdvanceIsCurrent ==
    /\ ~LoadingScreen
    /\ Len(gameState.prefetchedPokemon) = ROUNDS_PER_GAME
    /\ \A i \in 1..Len(timers) :
           timers[i].kind \in LoadKinds => ~Stale(timers[i])

\* C17: the advance out of round i, a round on screen, opens the summary when i + 1 is the
\* number of rounds; otherwise it presents round i + 1 from the prefetched
\* rounds with attempts, hint, clock and disabled set reset, and leaves
\* score, high score, history and config as they were.
C17_AdvanceRound ==
    [][(AdvanceIsCurrent /\ last' \in LoadKinds) =>
           LET i == gameState.currentRoundIndex
               next == gameState.prefetchedPokemon[i + 2]
           IN  IF i + 1 = ROUNDS_PER_GAME
               THEN /\ showSummary'
                    /\ ~LoadingScreen'
                    /\ UNCHANGED gameState
               ELSE /\ gameState'.currentRoundIndex = i + 1
                    /\ gameState'.pokemon = next.pokemon
                    /\ gameState'.choices = next.choices
                    /\ gameState'.guessesLeft =
                           (IF gameState.difficulty = "easy"
                            THEN EASY_MODE_GUESSES ELSE NORMAL_MODE_GUESSES)
                    /\ gameState'.hint = NoHint
                    /\ gameState'.timeLeft = GAME_DURATION
                    /\ gameState'.disabledChoices = {}
                    /\ ~gameState'.isRevealed
                    /\ ~gameState'.isLoading
                    /\ gameState'.score = gameState.score
                    /\ gameState'.highScore = gameState.highScore
                    /\ gameState'.correctGuesses = gameState.correctGuesses
                    /\ gameState'.mode = gameState.mode
                    /\ gameState'.difficulty = gameState.difficulty
                    /\ gameState'.prefetchedPokemon = gameState.prefetchedPokemon
                    /\ UNCHANGED showSummary]_vars

\* C17 witness: round 1 has just been presented after a correct guess in
\* round 0, with the score of round 0 and full attempts.
C17_Witness ==
    /\ last = "load"
    /\ gameState.currentRoundIndex = 1
    /\ gameState.pokemon = gameState.prefetchedPokemon[2].pokemon
    /\ gameState.score > 0
    /\ Len(gameState.correctGuesses) = 1
    /\ gameState.guessesLeft = getInitialGuesses(gameState.difficulty)
    /\ ~gameState.isRevealed

\* ---- properties of the component: the start of a round -----------------
\* The step presents a round: the first one of a prefetch that resolved, or
\* the next one loaded by the advance.
RoundStarts ==
    \/ last' = "resolve"
    \/ (last' = "load" /\ gameState'.currentRoundIndex # gameState.currentRoundIndex)

\* C18: every round starts with 30 seconds on the clock and with the
\* attempts of the game's difficulty: 3 in normal, 2 in easy.
C18_RoundStartsFull ==
    [][RoundStarts =>
           /\ gameState'.timeLeft = GAME_DURATION
           /\ gameState'.guessesLeft =
                  (IF gameState'.difficulty = "easy"
                   THEN EASY_MODE_GUESSES ELSE NORMAL_MODE_GUESSES)]_vars

\* ---- properties of the component: the summary --------------------------
\* What GameSummaryModal is given and puts on screen: the history, the
\* number shown as the score line, and the number of rounds.
SummaryProps ==
    [correctGuesses |-> gameState.correctGuesses,
     highScore |-> gameState.highScore,
     totalRounds |-> ROUNDS_PER_GAME]

\* The summary is on screen at the end of a game played through all rounds.
FullGameComplete == GameComplete /\ revealed = AllRounds

C21_HighScore ==
    /\ [](gameState.highScore >= gameState.score)
    /\ [][/\ gameState'.highScore >= gameState.highScore
          /\ last' = "correct" =>
                 gameState'.highScore =
                     (IF gameState'.score > gameState.highScore
                      THEN gameState'.score ELSE gameState.highScore)]_vars

\* C21 witness: the summary of a game that scored was dismissed and the
\* high score is still there.
C21_Witness ==
    /\ last = "dismissed"
    /\ gameState.highScore > 0
    /\ gameState.score = 0

\* ---- properties of the component: the clock ------------------------------
\* C22: while a round stays revealed no tick is delivered, and the time
\* left and the outcome tag stay what they were at the reveal.
C22_NoTickAfterReveal ==
    [][(gameState.isRevealed /\ gameState'.isRevealed) =>
           /\ last' \notin {"tick", "timeout"}
           /\ gameState'.timeLeft = gameState.timeLeft
           /\ gameState'.wasCorrect = gameState.wasCorrect
           /\ gameState'.timeExpired = gameState.timeExpired]_vars

\* C22 witness: a correct guess revealed the round with time on the clock,
\* the reveal delay has passed, and the clock still shows that time.
C22_Witness ==
    /\ last = "finish"
    /\ gameState.isRevealed /\ gameState.wasCorrect
    /\ gameState.isTransitioning
    /\ gameState.timeLeft \in ActTimes

\* ---- properties of the component: loading ------------------------------
\* C23: while a game is loading, only the completion of a prefetch ends the
\* loading; until then no round is put in play and the clock does not tick.
C23_LoadingUntilPrefetchEnds ==
    [][(gameState.isLoading /\ last' \notin {"resolve", "reject"}) =>
           /\ gameState'.isLoading
           /\ gameState'.pokemon = gameState.pokemon
           /\ gameState'.timeLeft = gameState.timeLeft]_vars

\* ---- properties of the component: fetching mid-game --------------------
\* A round of a game whose prefetch has resolved is installed.
RoundInstalled == ~gameState.isLoading /\ gameState.pokemon # NoPokemon

\* C24: while a game whose prefetch has resolved is being played, no
\* prefetch is in flight, so no entity is fetched.
C24_NoFetchMidGame ==
    RoundInstalled => prefetches = EmptyBag

\* ---- properties of the prefetch: sprites --------------------------------
\* C25: every Pokemon of every accepted round, the answer and each choice,
\* came with a front and a back sprite, so a fetched round in which some
\* Pokemon lacks one of them is not accepted; and when a fetched round is
\* not accepted, the loop goes on to fetch again.
C25_AcceptedRoundsHaveSprites ==
    /\ [](\A i \in 1..Len(loader.prefetchedData) :
              \A id \in RoundIds(loader.prefetchedData[i]) :
                  /\ \E v \in loader.visuals : v.id = id
                  /\ \A v \in loader.visuals :
                         v.id = id => (v.front /\ v.back))
    /\ [][(last' = "fetched" /\ loader'.prefetchedData = loader.prefetchedData) =>
              /\ loader'.usedIds = loader.usedIds
              /\ loader'.visuals = loader.visuals
              /\ loader'.pc = "loop"
              /\ LoopContinues(loader')]_vars

\* C25 witness: a fetched round was dropped after four rounds had been
\* accepted in easy mode, and the loop goes on.
C25_Witness ==
    /\ last = "fetched"
    /\ loader.difficulty = "easy"
    /\ loader.failures > 0
    /\ Len(loader.prefetchedData) = ROUNDS_PER_GAME - 1
    /\ Cardinality(loader.visuals) = (ROUNDS_PER_GAME - 1) * CHOICE_COUNT
    /\ LoopContinues(loader)

C27_DismissStartsFreshGame ==
    [][last' = "dismissed" =>
           /\ ~showSummary'
           /\ FreshGame(gameState.mode, gameState.difficulty)]_vars

\* C27 witness: the summary of a game that had scored and was played to the
\* last round was dismissed, and the next game is loading.
C27_Witness ==
    /\ last = "dismissed"
    /\ ~showSummary
    /\ gameState.isLoading
    /\ prefetches # EmptyBag
    /\ gameState.currentRoundIndex = 0
    /\ gameState.correctGuesses = <<>>
    /\ gameState.highScore > 0

\* ---- properties of handleGuess: letter case ----------------------------
\* Two texts are the same up to letter case.
SameButCase(a, b) == a = b \/ a = OtherCase(b) \/ b = OtherCase(a)

\* C28: a guess that is evaluated is correct exactly when it is the name of
\* the answer up to letter case.
C28_CaseInsensitive ==
    [][\A guess \in GuessInputs(gameState) :
          (handleGuess(guess) /\ last' # "guess rejected") =>
              (last' = "correct" <=>
                   SameButCase(guess, Name(gameState.pokemon)))]_vars

\* C28 witness: a free-text guess was evaluated as correct in a round where
\* the name in another letter case is one of the inputs.
C28_Witness ==
    /\ last = "correct"
    /\ gameState.difficulty = "normal"
    /\ gameState.wasCorrect
    /\ gameState.correctGuesses = <<gameState.pokemon>>
    /\ OtherCase(Name(gameState.pokemon)) \in GuessInputs(gameState)

\* ---- properties of handleGuess: the score delta is monotone ------------
\* The guesses at clock t1 and at clock t2 are both within the quick window
\* or both outside it.
SameBonus(t1, t2) ==
    (t1 > GAME_DURATION - QUICK_WINDOW) <=> (t2 > GAME_DURATION - QUICK_WINDOW)

\* C29: the score a correct guess adds at clock t with g attempts left is
\* not above what any guess with the same bonus status adds at a clock and
\* attempts that are not lower, and not below what one adds at a clock and
\* attempts that are not higher, over clocks 1..30 and attempts 1..3.
C29_ScoreDeltaMonotone ==
    [][last' = "correct" =>
          LET t == gameState.timeLeft
              g == gameState.guessesLeft
              delta == gameState'.score - gameState.score
          IN  \A t2 \in 1..GAME_DURATION, g2 \in 1..NORMAL_MODE_GUESSES :
                  SameBonus(t, t2) =>
                      /\ (t2 >= t /\ g2 >= g) => ScoreDelta(t2, g2) >= delta
                      /\ (t2 <= t /\ g2 <= g) => ScoreDelta(t2, g2) <= delta]_vars

\* C29 witness: a correct guess with the last attempt at clock 20, the
\* highest clock without the bonus, has scored ceil((20 + 5) / 2).
C29_Witness ==
    /\ last = "correct"
    /\ gameState.timeLeft = GAME_DURATION - QUICK_WINDOW
    /\ ~gameState.isQuickGuess
    /\ gameState.score = CeilHalf(GAME_DURATION - QUICK_WINDOW + 5)

\* ---- properties of the component: attempts within a round --------------
\* The step stays in the round on screen: same game, same round, same
\* Pokemon.
SameRound ==
    /\ gameState.pokemon # NoPokemon
    /\ gameState'.pokemon = gameState.pokemon
    /\ gameState'.currentRoundIndex = gameState.currentRoundIndex
    /\ gameState'.prefetchedPokemon = gameState.prefetchedPokemon
    /\ last' \notin {"resolve", "load"}

\* C30: within one round no step, a guess or a cleanup timeout of a wrong
\* guess, raises the attempts left.
C30_AttemptsNeverIncrease ==
    [][SameRound => gameState'.guessesLeft <= gameState.guessesLeft]_vars

\* ---- properties of the component: one install per game -----------------
\* C31: a prefetch that completes while a round of a game is already
\* installed is ignored: it changes nothing of the game being played.
C31_LatePrefetchIgnored ==
    [][(RoundInstalled /\ last' \in {"resolve", "reject"}) =>
           UNCHANGED gameState]_vars

\* ---- properties of the component: one advance per round ----------------
\* Every pending timeout that loads a round was scheduled in the game being
\* played.
LoadsOfThisGame ==
    \A i \in 1..Len(timers) :
        timers[i].kind = "load" => timers[i].pf = gameState.prefetchedPokemon

\* C32: a round that has started is not loaded again: when the timeouts
\* pending are those of the game being played, a load that fires while a
\* round is in play leaves the round index, the clock, the attempts and the
\* disabled set as they are.
C32_RoundLoadedOnce ==
    [][(/\ RoundInstalled /\ ~gameState.isRevealed
        /\ LoadsOfThisGame
        /\ last' = "load") =>
           UNCHANGED gameState]_vars

\* ---- the component right after a mode switch ---------------------------
\* The first round of the game started at mount was on screen, untouched,
\* and the player has pressed a mode button for another config: the new
\* game is loading and its two prefetches are in flight.
InitSwitched ==
    \E c \in StoredConfigs :
    \E target \in ModeButtons(InitialGameState(c[1], c[2])) \ {c} :
        /\ gameState =
              StartPrefetch(resetGameState(
                  InstallFirstRound(InitialGameState(c[1], c[2]),
                                    PrefetchedData(1, c[2]), c[2]),
                  target[1], target[2]))
        /\ modeSwitchModal = ClosedModal
        /\ showSummary = FALSE
        /\ timers = <<>>
        /\ prefetches = SetToBag({Prefetch(target[1], target[2], 2),
                                  Prefetch(target[1], target[2], 3)})
        /\ nextGen = 3
        /\ loader = IdleLoader
        /\ inputs = 0
        /\ last = "switched"
        /\ revealed = {}
        /\ storage = ItemsOf(target)
        /\ cache = EmptyCache
        /\ service = IdleService

SpecSwitched == InitSwitched /\ [][Next]_vars

\* The component is in a state InitSwitched starts from, but for the count
\* of the player's inputs.
AfterFirstSwitch ==
    /\ last = "switched"
    /\ inputs = 1
    /\ timers = <<>>
    /\ showSummary = FALSE
    /\ modeSwitchModal = ClosedModal
    /\ nextGen = 3
    /\ gameState = StartPrefetch(InitialGameState(gameState.mode,
                                                  gameState.difficulty))
    /\ prefetches = SetToBag({Prefetch(gameState.mode, gameState.difficulty, 2),
                              Prefetch(gameState.mode, gameState.difficulty, 3)})

\* ---- properties of the component: one score per round ------------------
\* C33: the history of correct guesses holds at most one entry per round
\* played, at most as many as the game has rounds, no Pokemon twice, and it
\* is empty exactly when the score is 0.
C33_OneEntryPerRound ==
    LET history == gameState.correctGuesses IN
    /\ Len(history) <= gameState.currentRoundIndex + 1
    /\ Len(history) <= ROUNDS_PER_GAME
    /\ \A a, b \in 1..Len(history) : a # b => history[a] # history[b]
    /\ (gameState.score = 0) <=> (history = <<>>)

\* ---- the component with a slow second prefetch --------------------------
\* As InitSwitched, later: the first prefetch of the new game has resolved,
\* the clock of its round 0 has run down to 1 with no guess made, and the
\* second prefetch is still in flight (its requests are slow, or are being
\* retried).
InitLate ==
    \E c \in StoredConfigs :
    \E target \in ModeButtons(InitialGameState(c[1], c[2])) \ {c} :
        /\ gameState =
              [InstallFirstRound(
                   StartPrefetch(resetGameState(
                       InstallFirstRound(InitialGameState(c[1], c[2]),
                                         PrefetchedData(1, c[2]), c[2]),
                       target[1], target[2])),
                   PrefetchedData(2, target[2]), target[2])
               EXCEPT !.timeLeft = 1]
        /\ modeSwitchModal = ClosedModal
        /\ showSummary = FALSE
        /\ timers = <<>>
        /\ prefetches = SetToBag({Prefetch(target[1], target[2], 3)})
        /\ nextGen = 3
        /\ loader = IdleLoader
        /\ inputs = 0
        /\ last = "tick"
        /\ revealed = {}
        /\ storage = ItemsOf(target)
        /\ cache = EmptyCache
        /\ service = IdleService

SpecLate == InitLate /\ [][Next]_vars

\* ---- properties of the component: the outcome of a round ---------------
\* What the outcome message of a revealed round says.
OutcomeTag(gs) ==
    IF gs.wasCorrect THEN "correct"
    ELSE IF gs.timeExpired THEN "timeout"
    ELSE "out of guesses"

RevealEvents == {"correct", "timeout", "out of guesses"}

\* C34: a revealed round never has wasCorrect and timeExpired both true;
\* the step that reveals a round gives it the outcome of that step (a right
\* guess, the clock at 0, the last attempt spent), and the outcome stays as
\* it is for as long as the round stays revealed.
C34_OneOutcome ==
    /\ [](gameState.isRevealed =>
              ~(gameState.wasCorrect /\ gameState.timeExpired))
    /\ [][/\ (~gameState.isRevealed /\ gameState'.isRevealed) =>
                 /\ last' \in RevealEvents
                 /\ OutcomeTag(gameState') = last'
                 /\ ~(gameState'.wasCorrect /\ gameState'.timeExpired)
          /\ (gameState.isRevealed /\ gameState'.isRevealed) =>
                 /\ last' \notin RevealEvents
                 /\ OutcomeTag(gameState') = OutcomeTag(gameState)]_vars

\* ---- properties of the component: what a switch may destroy ------------
\* C35: a press of the button of another config switches at once only when
\* the game has score 0 and is in its first round; with a score or a later
\* round, the press opens the confirmation modal instead.
C35_ImmediateSwitchLosesNothing ==
    [][last' = "switched" =>
           /\ gameState.score = 0
           /\ gameState.currentRoundIndex = 0]_vars

\* ---- properties of the component: the round in play --------------------
\* The rounds in pf were prefetched for this difficulty: rounds of an easy
\* game carry their choice buttons, rounds of a normal game carry none.
PrefetchedFor(pf, difficulty) ==
    \A i \in 1..Len(pf) :
        Len(pf[i].choices) = (IF difficulty = "easy" THEN CHOICE_COUNT ELSE 0)

\* C36: whenever the component is not loading and holds a round, the round
\* index is one of the game's rounds, the Pokemon and the choices on screen
\* are those of the prefetched round at that index, and the prefetched
\* rounds are a full game prefetched for the active difficulty.
C36_RoundInPlayIsPrefetched ==
    RoundInstalled =>
        /\ gameState.currentRoundIndex \in 0..(ROUNDS_PER_GAME - 1)
        /\ Len(gameState.prefetchedPokemon) = ROUNDS_PER_GAME
        /\ gameState.pokemon =
              gameState.prefetchedPokemon[gameState.currentRoundIndex + 1].pokemon
        /\ gameState.choices =
              gameState.prefetchedPokemon[gameState.currentRoundIndex + 1].choices
        /\ PrefetchedFor(gameState.prefetchedPokemon, gameState.difficulty)

\* ---- a game nobody plays -----------------------------------------------
\* The clock interval ticks while its effect keeps it armed, and timeouts
\* that were scheduled fire.
FairSpecClock == Spec /\ WF_vars(Tick) /\ WF_vars(TimerFires)

\* C37: left alone, a game whose prefetch has resolved reaches the summary
\* (unless the player does something first); up to there every round is
\* revealed by the clock, and the summary then stands on the last round
\* with all ROUNDS_PER_GAME rounds revealed, score 0 and no correct guess.
C37_IdleGameCompletes ==
    /\ []((inputs = 0 /\ GameComplete) =>
              /\ revealed = AllRounds
              /\ gameState.currentRoundIndex = ROUNDS_PER_GAME - 1
              /\ gameState.isRevealed /\ gameState.timeExpired
              /\ gameState.score = 0
              /\ gameState.correctGuesses = <<>>)
    /\ [][(inputs' = 0 /\ ~gameState.isRevealed /\ gameState'.isRevealed) =>
              last' = "timeout"]_vars
    /\ (last = "resolve" /\ inputs = 0) ~> (inputs > 0 \/ GameComplete)

\* C37 witness: the summary has opened on a game with no input at all.
C37_Witness ==
    /\ inputs = 0
    /\ last = "summary"
    /\ GameComplete
    /\ revealed = AllRounds

\* ---- properties of the component: the persisted config -----------------
\* The mode and difficulty a mount would start with, given the items in
\* localStorage.
PersistedConfig ==
    <<IF storage.mode \in Modes THEN storage.mode ELSE "modern",
      IF storage.difficulty \in Difficulties THEN storage.difficulty ELSE "normal">>

ActiveConfig == <<gameState.mode, gameState.difficulty>>

IdsClean(l) ==
    /\ \A a, b \in 1..Len(l.ids) : a # b => l.ids[a] # l.ids[b]
    /\ Range(l.ids) \subseteq 1..MaxId(l.mode)
    /\ Range(l.ids) \cap l.usedIds = {}

\* C39: getRandomPokemonIds makes at most MAX_ATTEMPTS draws; when it
\* returns, it returns exactly CHOICE_COUNT pairwise distinct ids of the
\* mode, none of them excluded; it throws only when MAX_ATTEMPTS draws have
\* left it short of ids.
C39_IdsOrThrow ==
    /\ [](loader.pc = "ids" =>
              /\ loader.attempts <= MAX_ATTEMPTS
              /\ Len(loader.ids) <= CHOICE_COUNT
              /\ IdsClean(loader))
    /\ [][/\ last' = "ids drawn" =>
                 /\ Len(loader'.ids) = CHOICE_COUNT
                 /\ IdsClean(loader')
                 /\ loader'.usedIds = loader.usedIds
          /\ last' = "ids exhausted" =>
                 /\ loader.attempts = MAX_ATTEMPTS
                 /\ Len(loader.ids) < CHOICE_COUNT]_vars

\* C39 witness: a call has returned its ids after draws that were turned
\* down, with ids excluded.
C39_Witness ==
    /\ last = "ids drawn"
    /\ loader.usedIds # {}
    /\ loader.attempts > CHOICE_COUNT
    /\ Len(loader.ids) = CHOICE_COUNT

\* ---- pokemonService: the cache of fetched Pokemon -----------------------
\* the ids fetchPokemon is called with
CacheIds == {1, 2}
\* the times Date.now() moves between two steps: a millisecond, a day
ClockSteps == {1, CACHE_EXPIRATION}

\* A Pokemon as the API returned it at time t.
Fetched(id, t) == [kind |-> "data", id |-> id, fetchedAt |-> t]

CacheEntry(data, timestamp) == [data |-> data, timestamp |-> timestamp]

\* localStorage.removeItem / setItem on the key of id.
RemoveItem(c, id) == [k \in (DOMAIN c) \ {id} |-> c[k]]

SetItem(c, id, entry) ==
    [k \in (DOMAIN c) \cup {id} |-> IF k = id THEN entry ELSE c[k]]

\* The variant that never expires an entry.
Expired_Never(timestamp, now) == FALSE

\* getCachedPokemon: now - entry.timestamp > CACHE_EXPIRATION
Expired(timestamp, now) == now - timestamp > CACHE_EXPIRATION

\* clearOldestCacheEntries: the entries left when the requiredSpace oldest
\* ones are removed.
RECURSIVE ClearOldest(_, _)
ClearOldest(c, requiredSpace) ==
    IF requiredSpace = 0 \/ DOMAIN c = {} THEN c
    ELSE LET oldest == CHOOSE k \in DOMAIN c :
                           \A j \in DOMAIN c :
                               \/ c[k].timestamp < c[j].timestamp
                               \/ (c[k].timestamp = c[j].timestamp /\ k <= j)
         IN  ClearOldest(RemoveItem(c, oldest), requiredSpace - 1)

\* cachePokemon: what localStorage holds afterwards.  setItem succeeds; or
\* it throws something that is only logged; or it throws QuotaExceededError,
\* the EVICT_COUNT oldest entries are cleared, and the second setItem
\* succeeds or throws.
CacheOutcomes(c, id, entry) ==
    {SetItem(c, id, entry),
     c,
     SetItem(ClearOldest(c, EVICT_COUNT), id, entry),
     ClearOldest(c, EVICT_COUNT)}

ServiceIdle == UNCHANGED <<gameState, modeSwitchModal, showSummary, timers,
                           prefetches, nextGen, loader, inputs, revealed,
                           storage>>

\* Time passes.
ClockAdvances ==
    /\ service.advances < MaxAdvances
    /\ \E d \in ClockSteps :
          service' = [service EXCEPT !.now = service.now + d,
                                     !.advances = service.advances + 1]
    /\ last' = "clock"
    /\ UNCHANGED cache
    /\ ServiceIdle

\* fetchPokemon(id) up to its return or its await: getCachedPokemon returns
\* the entry's data, or null for no entry and for an expired entry, which it
\* removes; on null the request to the API is sent.
FetchPokemonCalled ==
    /\ service.pc = "idle"
    /\ \E id \in CacheIds :
          IF id \notin DOMAIN cache
          THEN /\ service' = [service EXCEPT !.pc = "pending", !.id = id,
                                  !.result = NoResult, !.requested = TRUE]
               /\ last' = "cache miss"
               /\ UNCHANGED cache
          ELSE IF Expired(cache[id].timestamp, service.now)
          THEN /\ cache' = RemoveItem(cache, id)
               /\ service' = [service EXCEPT !.pc = "pending", !.id = id,
                                  !.result = NoResult, !.requested = TRUE]
               /\ last' = "cache expired"
          ELSE /\ service' = [service EXCEPT !.id = id,
                                  !.result = cache[id].data,
                                  !.requested = FALSE]
               /\ last' = "cache hit"
               /\ UNCHANGED cache
    /\ ServiceIdle

\* The response is ok: the Pokemon is cached with the time of now and
\* returned.
ResponseOk ==
    /\ service.pc = "pending"
    /\ LET data == Fetched(service.id, service.now) IN
       /\ cache' \in CacheOutcomes(cache, service.id,
                                   CacheEntry(data, service.now))
       /\ service' = [service EXCEPT !.pc = "idle", !.result = data]
    /\ last' = "response ok"
    /\ ServiceIdle

\* The request fails or the response is not ok: fetchPokemon throws.
ResponseFails ==
    /\ service.pc = "pending"
    /\ service' = [service EXCEPT !.pc = "idle",
                       !.result = [kind |-> "error", id |-> service.id,
                                   fetchedAt |-> 0]]
    /\ last' = "response failed"
    /\ UNCHANGED cache
    /\ ServiceIdle

\* The service is loaded: nothing is cached yet.
InitCache ==
    /\ gameState = InitialGameState("modern", "normal")
    /\ modeSwitchModal = ClosedModal
    /\ showSummary = FALSE
    /\ timers = <<>>
    /\ prefetches = EmptyBag
    /\ nextGen = 1
    /\ loader = IdleLoader
    /\ inputs = 0
    /\ last = "service"
    /\ revealed = {}
    /\ storage = ItemsOf(<<"modern", "normal">>)
    /\ cache = EmptyCache
    /\ service = IdleService

NextCache ==
    \/ ClockAdvances
    \/ FetchPokemonCalled
    \/ ResponseOk
    \/ ResponseFails

SpecCache == InitCache /\ [][NextCache]_vars

CallLabels == {"cache hit", "cache miss", "cache expired"}

\* C40: a fetchPokemon call that finds an entry older than CACHE_EXPIRATION
\* removes it, returns nothing from the cache and sends the request to the
\* API; a call that finds an entry not older than that returns the entry's
\* data, sends no request and leaves the cache as it is.  So no call returns
\* data that is older than CACHE_EXPIRATION.
C40_CacheExpiry ==
    /\ [][(last' \in CallLabels /\ service'.id \in DOMAIN cache) =>
              LET id == service'.id IN
              IF service.now - cache[id].timestamp > CACHE_EXPIRATION
              THEN /\ id \notin DOMAIN cache'
                   /\ service'.result = NoResult
                   /\ service'.pc = "pending" /\ service'.requested
              ELSE /\ service'.result = cache[id].data
                   /\ service'.pc = "idle" /\ ~service'.requested
                   /\ UNCHANGED cache]_vars
    /\ [][service'.result.kind = "data" /\ service'.result # service.result =>
              service'.now - service'.result.fetchedAt <= CACHE_EXPIRATION]_vars
    /\ [](\A id \in DOMAIN cache :
              /\ cache[id].timestamp = cache[id].data.fetchedAt
              /\ cache[id].data.id = id)

\* C40 witness: a call has found an entry older than CACHE_EXPIRATION; the
\* entry is gone and the request is pending.
C40_Witness ==
    /\ last = "cache expired"
    /\ service.pc = "pending" /\ service.requested
    /\ service.id \notin DOMAIN cache

====
